---------------------------- MODULE Spec2Model ----------------------------
(***************************************************************************)
(* The SageMaker Pipelines Lambda-step notebook: the cells that name the   *)
(* resources, the pipeline definition with its condition step, the Lambda  *)
(* handler that deploys the model, the evaluation report that the          *)
(* condition reads, and the clean-up cell.  The platform (pipeline         *)
(* executor, SageMaker control plane, Lambda service) is the environment:  *)
(* it runs the steps in the order the definition allows and answers the    *)
(* API calls, each of which may raise.                                     *)
(***************************************************************************)
EXTENDS Integers, Sequences, FiniteSets, TLC

(***************************************************************************)
(* Bounds of the model.                                                    *)
(***************************************************************************)
MaxRows == 3    \* rows of test.csv
MaxVal == 3     \* label and prediction values range over 0..MaxVal
MaxYear == 1    \* years the wall clock ranges over
MaxTick == 2    \* month-day-hour-minute-second instants within a year
MaxGen == 1     \* suffixes the platform picks generated model names from
MaxRuns == 2    \* executions started in a notebook session whose cells are re-run
MaxSplitRows == 100  \* rows of the abalone dataset preprocess.py splits
MaxShift == 2   \* shuffles of the rows: rotations by 0..MaxShift
MaxTestRows == 3  \* rows of the churn notebook's test_data

(***************************************************************************)
(* Names.  A resource name is a pair <<prefix, suffix>>, the string        *)
(* prefix + suffix of the source.                                          *)
(***************************************************************************)
Unset == <<"", 0>>

\* A time is a pair <<year, instant within the year>>.
\* time.strftime("%m-%d-%H-%M-%S", time.localtime()): the year is not part
\* of the format.
strftime(t) == t[2]

\* The steps of the pipeline, by name.
Steps ==
    {"PreprocessAbaloneData", "TrainAbaloneModel", "EvaluateAbaloneModel",
     "CheckMSEAbaloneEvaluation", "CreateModel", "LambdaStep"}


(***************************************************************************)
(* evaluate.py.  Numbers are exact: a rational num/den, or its square      *)
(* root when root is TRUE.                                                 *)
(***************************************************************************)
RECURSIVE SumSeq(_)
SumSeq(s) == IF s = <<>> THEN 0 ELSE Head(s) + SumSeq(Tail(s))

\* y_test - predictions, element by element.
Residuals(y_test, predictions) ==
    [i \in 1..Len(y_test) |-> y_test[i] - predictions[i]]

Squares(d) == [i \in 1..Len(d) |-> d[i] * d[i]]

\* sklearn.metrics.mean_squared_error(y_test, predictions)
mean_squared_error(y_test, predictions) ==
    LET d == Residuals(y_test, predictions)
    IN  [root |-> FALSE, num |-> SumSeq(Squares(d)), den |-> Len(d)]

\* np.std(y_test - predictions): the population standard deviation.
np_std(d) ==
    [root |-> TRUE,
     num |-> Len(d) * SumSeq(Squares(d)) - SumSeq(d) * SumSeq(d),
     den |-> Len(d) * Len(d)]

\* A Python value: a float, or a dict as the sequence of its <<key, value>>
\* items in insertion order.
NoNum == [root |-> FALSE, num |-> 0, den |-> 1]
PyNum(x) == [t |-> "num", num |-> x, items |-> <<>>]
PyDict(items) == [t |-> "dict", num |-> NoNum, items |-> items]

\* A report whose MSE sits under another key.
report_dict_renamed(mse, std) ==
    PyDict(<< <<"regression_metrics",
                PyDict(<< <<"mse",
                            PyDict(<< <<"standard_deviation", PyNum(std)>>,
                                      <<"mean", PyNum(mse)>> >>)>> >>)>> >>)

report_dict(mse, std) ==
    PyDict(<< <<"regression_metrics",
                PyDict(<< <<"mse",
                            PyDict(<< <<"value", PyNum(mse)>>,
                                      <<"standard_deviation", PyNum(std)>> >>)>> >>)>> >>)

\* json.dumps: the text of a value, as its sequence of JSON tokens.
Tok(k) == [k |-> k, s |-> "", num |-> NoNum]
StrTok(s) == [k |-> "str", s |-> s, num |-> NoNum]
NumTok(x) == [k |-> "num", s |-> "", num |-> x]

RECURSIVE dumps(_), dumpItems(_)
dumps(v) ==
    IF v.t = "dict"
    THEN <<Tok("{")>> \o dumpItems(v.items) \o <<Tok("}")>>
    ELSE <<NumTok(v.num)>>
dumpItems(items) ==
    IF items = <<>> THEN <<>>
    ELSE <<StrTok(items[1][1]), Tok(":")>> \o dumps(items[1][2])
         \o (IF Len(items) > 1 THEN <<Tok(",")>> \o dumpItems(Tail(items)) ELSE <<>>)

(***************************************************************************)
(* The condition step's left operand: JsonGet on the property file         *)
(* evaluation.json of the evaluation step, read from the JSON text.        *)
(***************************************************************************)
\* The index just past the object whose members start at i.
RECURSIVE closeOf(_, _, _)
closeOf(toks, i, depth) ==
    IF i > Len(toks) THEN i
    ELSE IF toks[i].k = "{" THEN closeOf(toks, i + 1, depth + 1)
    ELSE IF toks[i].k = "}"
         THEN IF depth = 1 THEN i + 1 ELSE closeOf(toks, i + 1, depth - 1)
    ELSE closeOf(toks, i + 1, depth)

\* The index just past the value that starts at i.
skipValue(toks, i) ==
    IF i <= Len(toks) /\ toks[i].k = "{" THEN closeOf(toks, i + 1, 1) ELSE i + 1

\* The index of the value of member key in the object whose members start
\* at i; 0 when the object has no such member.
RECURSIVE findMember(_, _, _)
findMember(toks, i, key) ==
    IF i + 2 > Len(toks) \/ toks[i].k # "str" \/ toks[i + 1].k # ":" THEN 0
    ELSE IF toks[i].s = key THEN i + 2
    ELSE LET j == skipValue(toks, i + 2)
         IN  IF j <= Len(toks) /\ toks[j].k = "," THEN findMember(toks, j + 1, key)
             ELSE 0

\* The index of the value path leads to from the value at i; 0 when a key
\* of the path is missing or leads through something that is no object.
RECURSIVE resolve(_, _, _)
resolve(toks, i, path) ==
    IF i = 0 \/ i > Len(toks) THEN 0
    ELSE IF path = <<>> THEN i
    ELSE IF toks[i].k # "{" THEN 0
    ELSE resolve(toks, findMember(toks, i + 1, Head(path)), Tail(path))

NotResolved == [found |-> FALSE, num |-> NoNum]

JsonGet(text, path) ==
    LET i == resolve(text, 1, path)
    IN  IF i = 0 THEN NotResolved
        ELSE IF text[i].k # "num" THEN NotResolved
        ELSE [found |-> TRUE, num |-> text[i].num]

\* json_path="regression_metrics.mse.value", as its keys.
json_path == <<"regression_metrics", "mse", "value">>

\* right=6.0
right == 6

\* The comparison turned around.
cond_gte(left) == left.num >= right * left.den

\* ConditionLessThanOrEqualTo(left, right) on a resolved left operand.
cond_lte(left) == left.num <= right * left.den

(***************************************************************************)
(* The pipeline definition: what each step reads from the steps before     *)
(* it, and the branches of the condition step.                             *)
(***************************************************************************)
\* step_train reads the train and validation outputs of step_process.
step_train_inputs == {"PreprocessAbaloneData"}

\* step_eval without its reference to step_train.
step_eval_inputs_test_only == {"PreprocessAbaloneData"}

\* step_eval reads the model artifacts of step_train and the test output of
\* step_process.
step_eval_inputs == {"TrainAbaloneModel", "PreprocessAbaloneData"}

\* cond_lte reads the property file of step_eval.
step_cond_inputs == {"EvaluateAbaloneModel"}

\* model.model_data is the model artifacts of step_train.
step_create_model_inputs == {"TrainAbaloneModel"}

\* The "model_name" input of step_deploy_lambda is
\* step_create_model.properties.ModelName.
step_deploy_lambda_inputs == {"CreateModel"}

if_steps == {"CreateModel", "LambdaStep"}
else_steps == {}

\* The steps whose properties step s refers to.
DependsOn(s) ==
    CASE s = "PreprocessAbaloneData" -> {}
      [] s = "TrainAbaloneModel" -> step_train_inputs
      [] s = "EvaluateAbaloneModel" -> step_eval_inputs
      [] s = "CheckMSEAbaloneEvaluation" -> step_cond_inputs
      [] s = "CreateModel" -> step_create_model_inputs
      [] s = "LambdaStep" -> step_deploy_lambda_inputs

\* outputs=[output_param_1, output_param_2, output_param_3]
LambdaOutputs == {"statusCode", "body", "other_key"}

(***************************************************************************)
(* State.                                                                  *)
(***************************************************************************)
VARIABLES
    \* the notebook
    nbPc,                   \* the cell (or statement of the clean-up cell) to run next
    raised,                 \* the cells that ended by raising
    clock,                  \* the wall clock
    current_time,
    model_name,
    endpoint_config_name,
    endpoint_name,
    function_name,
    pipeline_name,
    started,                \* the pipeline names executions were started under, in order
    \* the platform's resources
    models,                 \* names of the SageMaker models
    endpointConfigs,        \* [name, ProductionVariants]
    endpoints,              \* [name, config, status]
    functions,              \* names of the Lambda functions
    pipelines,              \* names of the pipelines
    apiLog,                 \* the create and delete calls, in order
    \* the pipeline execution
    execStatus,
    stepStatus,
    mse,                    \* evaluate.py's mse
    evaluationJson,         \* the text of evaluation.json
    condOutcome,
    createdModel,           \* step_create_model.properties.ModelName
    \* the Lambda invocation
    lambdaPc,
    event,
    response                \* <<>>, or <<r>> with r the returned dictionary

nbVars ==
    <<nbPc, raised, clock, current_time, model_name, endpoint_config_name,
      endpoint_name, function_name, pipeline_name, started>>
resVars == <<models, endpointConfigs, endpoints, functions, pipelines, apiLog>>
execVars == <<execStatus, stepStatus, mse, evaluationJson, condOutcome, createdModel>>
lamVars == <<lambdaPc, event, response>>
pipeVars == <<nbVars, resVars, execVars, lamVars>>

\* preprocess.py and evaluate.py on the files they exchange.
VARIABLES
    ppPc,                   \* the statement of preprocess.py / evaluate.py to run next
    df,                     \* the rows read from the abalone dataset
    X,                      \* the featurized rows, label first
    train,                  \* the rows of train.csv
    validation,             \* the rows of validation.csv
    test,                   \* the rows of test.csv
    ev_y_test,              \* evaluate.py's y_test
    ev_X_test               \* the rows evaluate.py passes to the model

dataVars == <<ppPc, df, X, train, validation, test, ev_y_test, ev_X_test>>

\* The churn notebook's cutoff sweep.
VARIABLES
    test_data_labels, churn_predictions, sweep_i, costs, sweepPc

churnVars == <<test_data_labels, churn_predictions, sweep_i, costs, sweepPc>>

\* The processing-jobs notebook and the jobs of its account.
VARIABLES
    pjPc, pjRaised, pjClock, pjJobs, processor_jobs, estimator_jobs,
    preprocessed_training_data, preprocessed_test_data, model_data_s3_uri

procVars == <<pjPc, pjRaised, pjClock, pjJobs, processor_jobs, estimator_jobs,
              preprocessed_training_data, preprocessed_test_data,
              model_data_s3_uri>>

\* The state of the scripts and notebooks the lambda-step notebook's cells
\* and pipeline do not touch.
outsideVars == <<dataVars, churnVars, procVars>>

vars == <<pipeVars, outsideVars>>

NoEvent == [model_name |-> Unset, endpoint_config_name |-> Unset, endpoint_name |-> Unset]

InitLambdaStep ==
    /\ nbPc = "names"
    /\ raised = {}
    /\ clock = <<0, 0>>
    /\ current_time = 0
    /\ model_name = Unset
    /\ endpoint_config_name = Unset
    /\ endpoint_name = Unset
    /\ function_name = Unset
    /\ pipeline_name = Unset
    /\ started = <<>>
    /\ models = {}
    /\ endpointConfigs = {}
    /\ endpoints = {}
    /\ functions = {}
    /\ pipelines = {}
    /\ apiLog = <<>>
    /\ execStatus = "None"
    /\ stepStatus = [s \in Steps |-> "NotStarted"]
    /\ mse = NoNum
    /\ evaluationJson = <<>>
    /\ condOutcome = "None"
    /\ createdModel = Unset
    /\ lambdaPc = "idle"
    /\ event = NoEvent
    /\ response = <<>>

\* The scripts have not run.
DataIdle ==
    /\ ppPc = "idle"
    /\ df = <<>>
    /\ X = <<>>
    /\ train = <<>>
    /\ validation = <<>>
    /\ test = <<>>
    /\ ev_y_test = <<>>
    /\ ev_X_test = <<>>

ChurnIdle ==
    /\ test_data_labels = <<>>
    /\ churn_predictions = <<>>
    /\ sweep_i = 0
    /\ costs = <<>>
    /\ sweepPc = "idle"

ProcessingIdle ==
    /\ pjPc = "idle"
    /\ pjRaised = {}
    /\ pjClock = 0
    /\ pjJobs = <<>>
    /\ processor_jobs = <<>>
    /\ estimator_jobs = <<>>
    /\ preprocessed_training_data = <<>>
    /\ preprocessed_test_data = <<>>
    /\ model_data_s3_uri = <<>>

Init ==
    /\ InitLambdaStep
    /\ DataIdle
    /\ ChurnIdle
    /\ ProcessingIdle

Call(caller, op, name, ok) == [caller |-> caller, op |-> op, name |-> name, ok |-> ok]

(***************************************************************************)
(* The notebook's cells, run top to bottom.  A cell that raises is         *)
(* recorded in raised; the cells after it can still be run.                *)
(***************************************************************************)
\* current_time and the names computed from it.
CustomLambdaStepCell ==
    /\ nbPc = "names"
    /\ current_time' = strftime(clock)
    /\ model_name' = <<"demo-lambda-model", current_time'>>
    /\ endpoint_config_name' = <<"demo-lambda-deploy-endpoint-config-", current_time'>>
    /\ endpoint_name' = <<"demo-lambda-deploy-endpoint-", current_time'>>
    /\ function_name' = <<"sagemaker-lambda-step-endpoint-deploy-", current_time'>>
    /\ nbPc' = "pipeline"
    /\ UNCHANGED <<raised, clock, pipeline_name, started, resVars, execVars, lamVars>>
    /\ UNCHANGED outsideVars

PipelineName(t) == <<"lambda-step-pipeline", t>>

PipelineCell ==
    /\ nbPc = "pipeline"
    /\ pipeline_name' = PipelineName(current_time)
    /\ nbPc' = "definition"
    /\ UNCHANGED <<raised, clock, current_time, model_name, endpoint_config_name,
                   endpoint_name, function_name, started, resVars, execVars, lamVars>>
    /\ UNCHANGED outsideVars

\* pipeline.definition() has the Lambda helper create the function.
DefinitionCell ==
    /\ nbPc = "definition"
    /\ functions' = functions \cup {function_name}
    /\ nbPc' = "upsert"
    /\ UNCHANGED <<raised, clock, current_time, model_name, endpoint_config_name,
                   endpoint_name, function_name, pipeline_name, started, models, endpointConfigs,
                   endpoints, pipelines, apiLog, execVars, lamVars>>
    /\ UNCHANGED outsideVars

UpsertCell ==
    /\ nbPc = "upsert"
    /\ pipelines' = pipelines \cup {pipeline_name}
    /\ nbPc' = "start"
    /\ UNCHANGED <<raised, clock, current_time, model_name, endpoint_config_name,
                   endpoint_name, function_name, pipeline_name, started, models, endpointConfigs,
                   endpoints, functions, apiLog, execVars, lamVars>>
    /\ UNCHANGED outsideVars

StartCell ==
    /\ nbPc = "start"
    /\ pipeline_name \in pipelines
    /\ execStatus' = "Executing"
    /\ started' = Append(started, pipeline_name)
    /\ nbPc' = "wait"
    /\ UNCHANGED <<raised, clock, current_time, model_name, endpoint_config_name,
                   endpoint_name, function_name, pipeline_name, resVars, stepStatus, mse,
                   evaluationJson, condOutcome, createdModel, lamVars>>
    /\ UNCHANGED outsideVars

\* The clean-up cell without its delete_endpoint statement.
cleanup_statements_no_endpoint ==
    <<"describe_endpoint_config", "delete_model", "delete_endpoint_config",
      "delete_function", "delete_pipeline">>

\* The statements of the clean-up cell, in order.
cleanup_statements ==
    <<"describe_endpoint_config", "delete_model", "delete_endpoint_config",
      "delete_endpoint", "delete_function", "delete_pipeline">>

\* The statement after statement st of the clean-up cell; "done" after the last.
RECURSIVE AfterIn(_, _)
AfterIn(stmts, st) ==
    IF stmts = <<>> THEN "done"
    ELSE IF Head(stmts) = st
         THEN IF Len(stmts) > 1 THEN stmts[2] ELSE "done"
    ELSE AfterIn(Tail(stmts), st)

After(st) == AfterIn(cleanup_statements, st)

\* execution.wait() blocks until the execution has ended, and raises when
\* it has failed.
WaitCell ==
    /\ nbPc = "wait"
    /\ execStatus \in {"Succeeded", "Failed"}
    /\ raised' = IF execStatus = "Failed" THEN raised \cup {"wait"} ELSE raised
    /\ nbPc' = "waiter"
    /\ UNCHANGED <<clock, current_time, model_name, endpoint_config_name, endpoint_name,
                   function_name, pipeline_name, started, resVars, execVars, lamVars>>
    /\ UNCHANGED outsideVars

\* The endpoint_in_service waiter: returns once the endpoint is InService,
\* raises when there is no such endpoint or it has failed.
\* The endpoint looked at once, without polling while it is being created.
WaiterCellOnce ==
    /\ nbPc = "waiter"
    /\ LET eps == {e \in endpoints : e.name = endpoint_name}
       IN  raised' = IF \E e \in eps : e.status = "InService"
                     THEN raised ELSE raised \cup {"waiter"}
    /\ nbPc' = Head(cleanup_statements)
    /\ UNCHANGED <<clock, current_time, model_name, endpoint_config_name, endpoint_name,
                   function_name, pipeline_name, started, resVars, execVars, lamVars>>
    /\ UNCHANGED outsideVars

WaiterCell ==
    /\ nbPc = "waiter"
    /\ LET eps == {e \in endpoints : e.name = endpoint_name}
       IN  /\ \A e \in eps : e.status # "Creating"
           /\ raised' = IF \E e \in eps : e.status = "InService"
                        THEN raised ELSE raised \cup {"waiter"}
    /\ nbPc' = Head(cleanup_statements)
    /\ UNCHANGED <<clock, current_time, model_name, endpoint_config_name, endpoint_name,
                   function_name, pipeline_name, started, resVars, execVars, lamVars>>
    /\ UNCHANGED outsideVars

(***************************************************************************)
(* The clean-up cell, statement by statement: each statement is one call   *)
(* to the platform, and a call that raises ends the cell.                  *)
(***************************************************************************)
CleanupRaise ==
    /\ raised' = raised \cup {"cleanup"}
    /\ nbPc' = "done"

CleanupGoOn(st) ==
    /\ raised' = raised
    /\ nbPc' = After(st)

\* The notebook's own model_name string instead of the described one.
LocalModelName(cfg) == <<"demo-lambda-model", current_time>>

\* The model name the clean-up cell takes from the described configuration.
DescribedModelName(cfg) == cfg.ProductionVariants[1].ModelName

CleanupDescribeEndpointConfig ==
    /\ nbPc = "describe_endpoint_config"
    /\ \E fault \in BOOLEAN :
         LET found == {c \in endpointConfigs : c.name = endpoint_config_name}
             ok == ~fault /\ found # {}
         IN  /\ apiLog' = Append(apiLog, Call("cleanup", "describe_endpoint_config",
                                              endpoint_config_name, ok))
             /\ IF ok
                THEN /\ model_name' = DescribedModelName(CHOOSE c \in found : TRUE)
                     /\ CleanupGoOn("describe_endpoint_config")
                ELSE /\ model_name' = model_name
                     /\ CleanupRaise
    /\ UNCHANGED <<clock, current_time, endpoint_config_name, endpoint_name, function_name,
                   pipeline_name, started, models, endpointConfigs, endpoints, functions, pipelines,
                   execVars, lamVars>>
    /\ UNCHANGED outsideVars

CleanupDeleteModel ==
    /\ nbPc = "delete_model"
    /\ \E fault \in BOOLEAN :
         LET ok == ~fault /\ model_name \in models
         IN  /\ apiLog' = Append(apiLog, Call("cleanup", "delete_model", model_name, ok))
             /\ IF ok
                THEN /\ models' = models \ {model_name}
                     /\ CleanupGoOn("delete_model")
                ELSE /\ models' = models
                     /\ CleanupRaise
    /\ UNCHANGED <<clock, current_time, model_name, endpoint_config_name, endpoint_name,
                   function_name, pipeline_name, started, endpointConfigs, endpoints, functions,
                   pipelines, execVars, lamVars>>
    /\ UNCHANGED outsideVars

CleanupDeleteEndpointConfig ==
    /\ nbPc = "delete_endpoint_config"
    /\ \E fault \in BOOLEAN :
         LET found == {c \in endpointConfigs : c.name = endpoint_config_name}
             ok == ~fault /\ found # {}
         IN  /\ apiLog' = Append(apiLog, Call("cleanup", "delete_endpoint_config",
                                              endpoint_config_name, ok))
             /\ IF ok
                THEN /\ endpointConfigs' = endpointConfigs \ found
                     /\ CleanupGoOn("delete_endpoint_config")
                ELSE /\ endpointConfigs' = endpointConfigs
                     /\ CleanupRaise
    /\ UNCHANGED <<clock, current_time, model_name, endpoint_config_name, endpoint_name,
                   function_name, pipeline_name, started, models, endpoints, functions, pipelines,
                   execVars, lamVars>>
    /\ UNCHANGED outsideVars

CleanupDeleteEndpoint ==
    /\ nbPc = "delete_endpoint"
    /\ \E fault \in BOOLEAN :
         LET found == {e \in endpoints : e.name = endpoint_name}
             ok == ~fault /\ found # {}
         IN  /\ apiLog' = Append(apiLog, Call("cleanup", "delete_endpoint", endpoint_name, ok))
             /\ IF ok
                THEN /\ endpoints' = endpoints \ found
                     /\ CleanupGoOn("delete_endpoint")
                ELSE /\ endpoints' = endpoints
                     /\ CleanupRaise
    /\ UNCHANGED <<clock, current_time, model_name, endpoint_config_name, endpoint_name,
                   function_name, pipeline_name, started, models, endpointConfigs, functions,
                   pipelines, execVars, lamVars>>
    /\ UNCHANGED outsideVars

\* func.delete()
CleanupDeleteFunction ==
    /\ nbPc = "delete_function"
    /\ \E fault \in BOOLEAN :
         LET ok == ~fault /\ function_name \in functions
         IN  /\ apiLog' = Append(apiLog, Call("cleanup", "delete_function", function_name, ok))
             /\ IF ok
                THEN /\ functions' = functions \ {function_name}
                     /\ CleanupGoOn("delete_function")
                ELSE /\ functions' = functions
                     /\ CleanupRaise
    /\ UNCHANGED <<clock, current_time, model_name, endpoint_config_name, endpoint_name,
                   function_name, pipeline_name, started, models, endpointConfigs, endpoints,
                   pipelines, execVars, lamVars>>
    /\ UNCHANGED outsideVars

CleanupDeletePipeline ==
    /\ nbPc = "delete_pipeline"
    /\ \E fault \in BOOLEAN :
         LET ok == ~fault /\ pipeline_name \in pipelines
         IN  /\ apiLog' = Append(apiLog, Call("cleanup", "delete_pipeline", pipeline_name, ok))
             /\ IF ok
                THEN /\ pipelines' = pipelines \ {pipeline_name}
                     /\ CleanupGoOn("delete_pipeline")
                ELSE /\ pipelines' = pipelines
                     /\ CleanupRaise
    /\ UNCHANGED <<clock, current_time, model_name, endpoint_config_name, endpoint_name,
                   function_name, pipeline_name, started, models, endpointConfigs, endpoints,
                   functions, execVars, lamVars>>
    /\ UNCHANGED outsideVars

(***************************************************************************)
(* The pipeline execution.  The platform starts a step once every step it  *)
(* reads from has succeeded and, for a step of a branch of the condition   *)
(* step, once the condition has chosen that branch.                        *)
(***************************************************************************)
JobSteps ==
    {"PreprocessAbaloneData", "TrainAbaloneModel", "EvaluateAbaloneModel", "CreateModel"}

CanStart(s) ==
    /\ execStatus = "Executing"
    /\ stepStatus[s] = "NotStarted"
    /\ \A d \in DependsOn(s) : stepStatus[d] = "Succeeded"
    /\ s \in if_steps => condOutcome = "True"
    /\ s \in else_steps => condOutcome = "False"

StartStep(s) ==
    /\ s \in JobSteps
    /\ CanStart(s)
    /\ stepStatus' = [stepStatus EXCEPT ![s] = "Executing"]
    /\ UNCHANGED <<nbVars, resVars, execStatus, mse, evaluationJson, condOutcome,
                   createdModel, lamVars>>
    /\ UNCHANGED outsideVars

\* A job of the platform fails: the execution fails with it.
FailStep(s) ==
    /\ s \in JobSteps
    /\ execStatus = "Executing"
    /\ stepStatus[s] = "Executing"
    /\ stepStatus' = [stepStatus EXCEPT ![s] = "Failed"]
    /\ execStatus' = "Failed"
    /\ UNCHANGED <<nbVars, resVars, mse, evaluationJson, condOutcome, createdModel, lamVars>>
    /\ UNCHANGED outsideVars

\* preprocess.py and the training job run to completion.
CompleteJob(s) ==
    /\ s \in {"PreprocessAbaloneData", "TrainAbaloneModel"}
    /\ execStatus = "Executing"
    /\ stepStatus[s] = "Executing"
    /\ stepStatus' = [stepStatus EXCEPT ![s] = "Succeeded"]
    /\ UNCHANGED <<nbVars, resVars, execStatus, mse, evaluationJson, condOutcome,
                   createdModel, lamVars>>
    /\ UNCHANGED outsideVars

\* The text evaluate.py writes to evaluation.json.
EvaluationReportText(m, std) == dumps(report_dict(m, std))

\* evaluate.py runs to completion on the labels y_test of test.csv and the
\* model's predictions for its rows.
CompleteEvaluate ==
    /\ execStatus = "Executing"
    /\ stepStatus["EvaluateAbaloneModel"] = "Executing"
    /\ \E n \in 1..MaxRows :
         \E y_test \in [1..n -> 0..MaxVal], predictions \in [1..n -> 0..MaxVal] :
            LET m == mean_squared_error(y_test, predictions)
                std == np_std(Residuals(y_test, predictions))
            IN  /\ mse' = m
                /\ evaluationJson' = EvaluationReportText(m, std)
    /\ stepStatus' = [stepStatus EXCEPT !["EvaluateAbaloneModel"] = "Succeeded"]
    /\ UNCHANGED <<nbVars, resVars, execStatus, condOutcome, createdModel, lamVars>>
    /\ UNCHANGED outsideVars

\* CheckMSEAbaloneEvaluation: the condition is evaluated on the property
\* file; the step fails when the JSON path does not resolve.
EvaluateCondition ==
    /\ CanStart("CheckMSEAbaloneEvaluation")
    /\ LET left == JsonGet(evaluationJson, json_path)
       IN  IF left.found
           THEN /\ condOutcome' = IF cond_lte(left.num) THEN "True" ELSE "False"
                /\ stepStatus' = [stepStatus EXCEPT !["CheckMSEAbaloneEvaluation"] = "Succeeded"]
                /\ execStatus' = execStatus
           ELSE /\ condOutcome' = condOutcome
                /\ stepStatus' = [stepStatus EXCEPT !["CheckMSEAbaloneEvaluation"] = "Failed"]
                /\ execStatus' = "Failed"
    /\ UNCHANGED <<nbVars, resVars, mse, evaluationJson, createdModel, lamVars>>
    /\ UNCHANGED outsideVars

\* CreateModel: the platform names the model.
CompleteCreateModel ==
    /\ execStatus = "Executing"
    /\ stepStatus["CreateModel"] = "Executing"
    /\ \E g \in 0..MaxGen :
         LET name == <<"pipelines-CreateModel-", g>>
         IN  /\ name \notin models
             /\ models' = models \cup {name}
             /\ createdModel' = name
             /\ apiLog' = Append(apiLog, Call("pipeline", "create_model", name, TRUE))
    /\ stepStatus' = [stepStatus EXCEPT !["CreateModel"] = "Succeeded"]
    /\ UNCHANGED <<nbVars, endpointConfigs, endpoints, functions, pipelines, execStatus,
                   mse, evaluationJson, condOutcome, lamVars>>
    /\ UNCHANGED outsideVars

\* The step's inputs with the notebook's own model_name string.
step_deploy_lambda_event_local ==
    [model_name |-> model_name,
     endpoint_config_name |-> endpoint_config_name,
     endpoint_name |-> endpoint_name]

\* inputs={...} of step_deploy_lambda, resolved in the execution.
step_deploy_lambda_event ==
    [model_name |-> createdModel,
     endpoint_config_name |-> endpoint_config_name,
     endpoint_name |-> endpoint_name]

\* The handler starting with its second call.
lambda_handler_entry_endpoint == "create_endpoint"

\* The first call lambda_handler makes.
lambda_handler_entry == "create_endpoint_config"

\* LambdaStep: the platform invokes the function with the step's inputs.
StartLambdaStep ==
    /\ CanStart("LambdaStep")
    /\ function_name \in functions
    /\ stepStatus' = [stepStatus EXCEPT !["LambdaStep"] = "Executing"]
    /\ event' = step_deploy_lambda_event
    /\ lambdaPc' = lambda_handler_entry
    /\ UNCHANGED <<nbVars, resVars, execStatus, mse, evaluationJson, condOutcome,
                   createdModel, response>>
    /\ UNCHANGED outsideVars

\* The step ends as the invocation ended.
FinishLambdaStep ==
    /\ execStatus = "Executing"
    /\ stepStatus["LambdaStep"] = "Executing"
    /\ lambdaPc \in {"returned", "raised"}
    /\ stepStatus' = [stepStatus EXCEPT
                        !["LambdaStep"] = IF lambdaPc = "returned" THEN "Succeeded" ELSE "Failed"]
    /\ execStatus' = IF lambdaPc = "returned" THEN execStatus ELSE "Failed"
    /\ UNCHANGED <<nbVars, resVars, mse, evaluationJson, condOutcome, createdModel, lamVars>>
    /\ UNCHANGED outsideVars

\* The execution succeeds when nothing runs and nothing more can start.
FinishExecution ==
    /\ execStatus = "Executing"
    /\ \A s \in Steps : stepStatus[s] \in {"NotStarted", "Succeeded"} /\ ~CanStart(s)
    /\ execStatus' = "Succeeded"
    /\ UNCHANGED <<nbVars, resVars, stepStatus, mse, evaluationJson, condOutcome,
                   createdModel, lamVars>>
    /\ UNCHANGED outsideVars

(***************************************************************************)
(* lambda_handler(event, context), one call to the platform at a time.     *)
(* An exception of a call is not caught: it ends the invocation.           *)
(***************************************************************************)
\* A handler that issues a call again when it raised.
lambda_handler_next_retry(pc, ok) ==
    IF ~ok THEN pc
    ELSE IF pc = "create_endpoint_config" THEN "create_endpoint"
    ELSE "returned"

\* Where the handler goes after the call at pc returned (ok) or raised.
lambda_handler_next(pc, ok) ==
    IF ~ok THEN "raised"
    ELSE IF pc = "create_endpoint_config" THEN "create_endpoint"
    ELSE "returned"

\* ProductionVariants=[{...}]
ProductionVariants(ev) ==
    <<[InstanceType |-> "ml.m4.xlarge",
       ModelName |-> ev.model_name,
       VariantName |-> "AllTraffic"]>>

\* A returned dictionary without other_key.
lambda_handler_return_short ==
    [statusCode |-> 200, body |-> "\"Created Endpoint!\""]

\* The dictionary the handler returns.
lambda_handler_return ==
    [statusCode |-> 200, body |-> "\"Created Endpoint!\"", other_key |-> "example_value"]

\* sm_client.create_endpoint_config(...): raises when the name is taken or
\* the model does not exist, and whenever the platform refuses the call.
LambdaCreateEndpointConfig ==
    /\ lambdaPc = "create_endpoint_config"
    /\ \E fault \in BOOLEAN :
         LET ok == /\ ~fault
                   /\ \A c \in endpointConfigs : c.name # event.endpoint_config_name
                   /\ event.model_name \in models
         IN  /\ apiLog' = Append(apiLog, Call("lambda", "create_endpoint_config",
                                              event.endpoint_config_name, ok))
             /\ endpointConfigs' =
                    IF ok
                    THEN endpointConfigs \cup
                            {[name |-> event.endpoint_config_name,
                              ProductionVariants |-> ProductionVariants(event)]}
                    ELSE endpointConfigs
             /\ lambdaPc' = lambda_handler_next("create_endpoint_config", ok)
    /\ UNCHANGED <<nbVars, models, endpoints, functions, pipelines, execVars, event, response>>
    /\ UNCHANGED outsideVars

\* sm_client.create_endpoint(...): raises when the name is taken or the
\* configuration does not exist, and whenever the platform refuses the call.
LambdaCreateEndpoint ==
    /\ lambdaPc = "create_endpoint"
    /\ \E fault \in BOOLEAN :
         LET ok == /\ ~fault
                   /\ \A e \in endpoints : e.name # event.endpoint_name
                   /\ \E c \in endpointConfigs : c.name = event.endpoint_config_name
             next == lambda_handler_next("create_endpoint", ok)
         IN  /\ apiLog' = Append(apiLog, Call("lambda", "create_endpoint",
                                              event.endpoint_name, ok))
             /\ endpoints' =
                    IF ok
                    THEN endpoints \cup
                            {[name |-> event.endpoint_name,
                              config |-> event.endpoint_config_name,
                              status |-> "Creating"]}
                    ELSE endpoints
             /\ lambdaPc' = next
             /\ response' = IF next = "returned" THEN <<lambda_handler_return>> ELSE response
    /\ UNCHANGED <<nbVars, models, endpointConfigs, functions, pipelines, execVars, event>>
    /\ UNCHANGED outsideVars

\* The platform brings an endpoint into service, or fails to.
EndpointSettles ==
    /\ \E e \in endpoints, st \in {"InService", "Failed"} :
         /\ e.status = "Creating"
         /\ endpoints' = (endpoints \ {e}) \cup {[e EXCEPT !.status = st]}
    /\ UNCHANGED <<nbVars, models, endpointConfigs, functions, pipelines, apiLog,
                   execVars, lamVars>>
    /\ UNCHANGED outsideVars

Next ==
    \/ CustomLambdaStepCell
    \/ PipelineCell
    \/ DefinitionCell
    \/ UpsertCell
    \/ StartCell
    \/ WaitCell
    \/ WaiterCell
    \/ CleanupDescribeEndpointConfig
    \/ CleanupDeleteModel
    \/ CleanupDeleteEndpointConfig
    \/ CleanupDeleteEndpoint
    \/ CleanupDeleteFunction
    \/ CleanupDeletePipeline
    \/ \E s \in Steps : StartStep(s)
    \/ \E s \in Steps : FailStep(s)
    \/ \E s \in Steps : CompleteJob(s)
    \/ CompleteEvaluate
    \/ EvaluateCondition
    \/ CompleteCreateModel
    \/ StartLambdaStep
    \/ LambdaCreateEndpointConfig
    \/ LambdaCreateEndpoint
    \/ FinishLambdaStep
    \/ FinishExecution
    \/ EndpointSettles

Spec == Init /\ [][Next]_vars

(***************************************************************************)
(* A notebook session in which cells are run again: time passes, and after *)
(* an execution was started the user runs the notebook again from the cell *)
(* that computes current_time, or only starts another execution.           *)
(***************************************************************************)
Tick ==
    /\ clock # <<MaxYear, MaxTick>>
    /\ clock' = IF clock[2] < MaxTick THEN <<clock[1], clock[2] + 1>>
                ELSE <<clock[1] + 1, 0>>
    /\ UNCHANGED <<nbPc, raised, current_time, model_name, endpoint_config_name,
                   endpoint_name, function_name, pipeline_name, started, resVars,
                   execVars, lamVars>>
    /\ UNCHANGED outsideVars

RerunCells ==
    /\ nbPc = "wait"
    /\ Len(started) < MaxRuns
    /\ \E cell \in {"names", "start"} : nbPc' = cell
    /\ UNCHANGED <<raised, clock, current_time, model_name, endpoint_config_name,
                   endpoint_name, function_name, pipeline_name, started, resVars,
                   execVars, lamVars>>
    /\ UNCHANGED outsideVars

NextRerun ==
    \/ CustomLambdaStepCell
    \/ PipelineCell
    \/ DefinitionCell
    \/ UpsertCell
    \/ StartCell
    \/ Tick
    \/ RerunCells

SpecRerun == Init /\ [][NextRerun]_vars

(***************************************************************************)
(* The notebook on a platform that brings every created endpoint into      *)
(* service: the waiter polls until the endpoint has left "Creating".       *)
(***************************************************************************)
EndpointInService ==
    /\ \E e \in endpoints :
         /\ e.status = "Creating"
         /\ endpoints' = (endpoints \ {e}) \cup {[e EXCEPT !.status = "InService"]}
    /\ UNCHANGED <<nbVars, models, endpointConfigs, functions, pipelines, apiLog,
                   execVars, lamVars>>
    /\ UNCHANGED outsideVars

NextInService ==
    \/ CustomLambdaStepCell
    \/ PipelineCell
    \/ DefinitionCell
    \/ UpsertCell
    \/ StartCell
    \/ WaitCell
    \/ WaiterCell
    \/ CleanupDescribeEndpointConfig
    \/ CleanupDeleteModel
    \/ CleanupDeleteEndpointConfig
    \/ CleanupDeleteEndpoint
    \/ CleanupDeleteFunction
    \/ CleanupDeletePipeline
    \/ \E s \in Steps : StartStep(s)
    \/ \E s \in Steps : FailStep(s)
    \/ \E s \in Steps : CompleteJob(s)
    \/ CompleteEvaluate
    \/ EvaluateCondition
    \/ CompleteCreateModel
    \/ StartLambdaStep
    \/ LambdaCreateEndpointConfig
    \/ LambdaCreateEndpoint
    \/ FinishLambdaStep
    \/ FinishExecution
    \/ EndpointInService

\* The platform does bring a created endpoint into service, and the waiter
\* cell, once started, runs on.
SpecInService ==
    /\ Init
    /\ [][NextInService]_vars
    /\ WF_vars(EndpointInService)
    /\ WF_vars(WaiterCell)

(***************************************************************************)
(* Double-precision arithmetic of preprocess.py's split points.  A double  *)
(* in [0.5, 1) is its 53-bit significand m, least significant bit first:   *)
(* its value is m / 2^53.  A product is the bits of an integer p, of value *)
(* p / 2^53.                                                               *)
(***************************************************************************)
RECURSIVE Rep(_, _)
Rep(pattern, k) == IF k = 0 THEN <<>> ELSE pattern \o Rep(pattern, k - 1)

\* 0.7 = 0x1.6666666666666p-1
Double_0_7 == Rep(<<0, 1, 1, 0>>, 13) \o <<1>>

\* 0.85 = 0x1.b333333333333p-1
Double_0_85 == Rep(<<1, 1, 0, 0>>, 12) \o <<1, 1, 0, 1>> \o <<1>>

SignificandBits == 53

\* The bits of m * n + carry, for the bits of m.
RECURSIVE MulBits(_, _, _)
MulBits(bits, n, carry) ==
    IF bits = <<>>
    THEN IF carry = 0 THEN <<>> ELSE <<carry % 2>> \o MulBits(<<>>, n, carry \div 2)
    ELSE LET t == Head(bits) * n + carry
         IN  <<t % 2>> \o MulBits(Tail(bits), n, t \div 2)

\* The bits plus one.
RECURSIVE IncBits(_)
IncBits(bits) ==
    IF bits = <<>> THEN <<1>>
    ELSE IF Head(bits) = 0 THEN <<1>> \o Tail(bits)
    ELSE <<0>> \o IncBits(Tail(bits))

\* Round to nearest, ties to even, to SignificandBits significant bits.
RoundToDouble(bits) ==
    IF Len(bits) <= SignificandBits THEN bits
    ELSE LET d == Len(bits) - SignificandBits
             kept == SubSeq(bits, d + 1, Len(bits))
             sticky == \E i \in 1..(d - 1) : bits[i] = 1
             up == bits[d] = 1 /\ (sticky \/ kept[1] = 1)
         IN  [i \in 1..d |-> 0] \o (IF up THEN IncBits(kept) ELSE kept)

RECURSIVE BitsToInt(_)
BitsToInt(bits) == IF bits = <<>> THEN 0 ELSE Head(bits) + 2 * BitsToInt(Tail(bits))

\* c * n in double precision, for a double c in [0.5, 1) and an integer n.
float_mul(c, n) == RoundToDouble(MulBits(c, n, 0))

\* int(x): the integer part of a product.
py_int(x) == BitsToInt(SubSeq(x, SignificandBits + 1, Len(x)))

(***************************************************************************)
(* preprocess.py and evaluate.py on the rows of the dataset.  A cell of a  *)
(* row keeps the name of the dataset column it was computed from; the CSV  *)
(* files hold only the values, in column order.                            *)
(***************************************************************************)
Cell(from, v) == [from |-> from, v |-> v]

\* y_pre: the label of every row, as a column.
y_pre(rows) == [i \in 1..Len(rows) |-> <<Cell("rings", rows[i].rings)>>]

\* preprocess.fit_transform(df): the numeric features, then the one-hot
\* columns of sex.  (The scaled value is stood for by the value it is
\* computed from.)
fit_transform(rows) ==
    [i \in 1..Len(rows) |->
        <<Cell("length", rows[i].length),
          Cell("sex", IF rows[i].sex = 0 THEN 1 ELSE 0),
          Cell("sex", IF rows[i].sex = 1 THEN 1 ELSE 0),
          Cell("sex", IF rows[i].sex = 2 THEN 1 ELSE 0)>>]

\* np.concatenate((a, b), axis=1)
np_concatenate(a, b) == [i \in 1..Len(a) |-> a[i] \o b[i]]

\* The features before the label.
FeaturesFirst(rows) == np_concatenate(fit_transform(rows), y_pre(rows))

\* X = np.concatenate((y_pre, X_pre), axis=1)
LabelFirst(rows) == np_concatenate(y_pre(rows), fit_transform(rows))

Min(a, b) == IF a < b THEN a ELSE b

\* a[i:j], for 0 <= i and 0 <= j.
Slice(a, i, j) == SubSeq(a, Min(i, Len(a)) + 1, Min(j, Len(a)))

\* np.split(a, [i, j])
np_split(a, i, j) == <<Slice(a, 0, i), Slice(a, i, j), Slice(a, j, Len(a))>>

\* The rows with the first k rows moved to the end.
Rotate(a, k) == SubSeq(a, k + 1, Len(a)) \o SubSeq(a, 1, k)

\* The dataset: n rows, unlike each other.
Dataset(n, a) ==
    [i \in 1..n |-> [sex |-> i % 3, length |-> i, rings |-> (i + a) % (MaxVal + 1)]]

InitData ==
    /\ ppPc = "transform"
    /\ \E n \in 1..MaxSplitRows, a \in 0..MaxVal : df = Dataset(n, a)
    /\ X = <<>>
    /\ train = <<>>
    /\ validation = <<>>
    /\ test = <<>>
    /\ ev_y_test = <<>>
    /\ ev_X_test = <<>>

PreprocessTransform ==
    /\ ppPc = "transform"
    /\ X' = LabelFirst(df)
    /\ ppPc' = "shuffle"
    /\ UNCHANGED <<df, train, validation, test, ev_y_test, ev_X_test, pipeVars,
                   churnVars, procVars>>

\* np.random.shuffle(X): the rows in another order.
PreprocessShuffle ==
    /\ ppPc = "shuffle"
    /\ \E k \in 0..Min(MaxShift, Len(X) - 1) : X' = Rotate(X, k)
    /\ ppPc' = "split"
    /\ UNCHANGED <<df, train, validation, test, ev_y_test, ev_X_test, pipeVars,
                   churnVars, procVars>>

\* The header line of a frame made from an array: the column numbers.
HeaderLine(rows, index) ==
    (IF index THEN <<Cell("header", -1)>> ELSE <<>>)
        \o (IF rows = <<>> THEN <<>>
            ELSE [j \in 1..Len(rows[1]) |-> Cell("header", j - 1)])

\* pd.DataFrame(rows).to_csv(path, header=..., index=...): the lines of the
\* file, a header line first if asked for, the row number in front of each
\* row if asked for.
to_csv(rows, header, index) ==
    (IF header THEN <<HeaderLine(rows, index)>> ELSE <<>>)
        \o [i \in 1..Len(rows) |->
               (IF index THEN <<Cell("index", i - 1)>> ELSE <<>>) \o rows[i]]

\* pd.read_csv(path, header=None): every line is a row of data.
read_csv(lines) == lines

\* The split and the three files written from it.
PreprocessSplit ==
    /\ ppPc = "split"
    /\ LET parts == np_split(X, py_int(float_mul(Double_0_7, Len(X))),
                                py_int(float_mul(Double_0_85, Len(X))))
       IN  /\ train' = to_csv(parts[1], FALSE, FALSE)
           /\ validation' = to_csv(parts[2], FALSE, FALSE)
           /\ test' = to_csv(parts[3], FALSE, FALSE)
    /\ ppPc' = "evaluate"
    /\ UNCHANGED <<df, X, ev_y_test, ev_X_test, pipeVars,
                   churnVars, procVars>>

\* y_test = df.iloc[:, 0]
FirstColumn(rows) == [i \in 1..Len(rows) |-> rows[i][1]]

\* df.drop(df.columns[0], axis=1)
DropFirstColumn(rows) == [i \in 1..Len(rows) |-> Tail(rows[i])]

\* evaluate.py reads test.csv and takes the labels and the features apart.
EvaluateRead ==
    /\ ppPc = "evaluate"
    /\ ev_y_test' = FirstColumn(read_csv(test))
    /\ ev_X_test' = DropFirstColumn(read_csv(test))
    /\ ppPc' = "done"
    /\ UNCHANGED <<df, X, train, validation, test, pipeVars,
                   churnVars, procVars>>

NextData ==
    \/ PreprocessTransform
    \/ PreprocessShuffle
    \/ PreprocessSplit
    \/ EvaluateRead

InitDataset ==
    /\ InitLambdaStep
    /\ InitData
    /\ ChurnIdle
    /\ ProcessingIdle

SpecData == InitDataset /\ [][NextData]_vars

(***************************************************************************)
(* The churn notebook's cutoff sweep.  A prediction p stands for the score *)
(* p / 200 and cutoffs[j] for j / 100, so that a score can lie below, on   *)
(* or above a cutoff.                                                      *)
(***************************************************************************)
\* len(np.arange(0.01, 1, 0.01))
NumCutoffs == 99

\* cutoffs[j], in two-hundredths
cutoffs(j) == 2 * j

\* Scores of the model: below every cutoff, on the middle one, above every one.
PredictionValues == {1, 100, 199}

\* np.where(predictions > c, 1, 0)
np_where_gt(p, c) == [i \in 1..Len(p) |-> IF p[i] > c THEN 1 ELSE 0]

\* The classes a column holds, in ascending order.
ClassesOf(col) ==
    LET present == {col[i] : i \in 1..Len(col)}
    IN  IF present = {0, 1} THEN <<0, 1>>
        ELSE IF present = {0} THEN <<0>>
        ELSE IF present = {1} THEN <<1>>
        ELSE <<>>

\* pd.crosstab(index=..., columns=...): one row per class of index, one
\* column per class of columns, each present in the data.
crosstab(index, columns) ==
    LET rs == ClassesOf(index)
        cs == ClassesOf(columns)
    IN  [r \in 1..Len(rs) |->
            [c \in 1..Len(cs) |->
                Cardinality({i \in 1..Len(index) :
                                index[i] = rs[r] /\ columns[i] = cs[c]})]]

\* np.array([[0, 100], [500, 100]])
CostMatrix == <<<<0, 100>>, <<500, 100>>>>

Shape(m) == <<Len(m), IF Len(m) = 0 THEN 0 ELSE Len(m[1])>>

ValueError == [raised |-> "ValueError"]

\* ndarray * DataFrame: the frame's operator takes the array when it has the
\* frame's shape, or one row or one column of it; otherwise ValueError
\* ("Unable to coerce to DataFrame").
frame_mul(array, frame) ==
    LET fs == Shape(frame)
        as == Shape(array)
    IN  IF as = fs
        THEN [r \in 1..fs[1] |-> [c \in 1..fs[2] |-> array[r][c] * frame[r][c]]]
        ELSE IF as = <<fs[1], 1>>
        THEN [r \in 1..fs[1] |-> [c \in 1..fs[2] |-> array[r][1] * frame[r][c]]]
        ELSE IF as = <<1, fs[2]>>
        THEN [r \in 1..fs[1] |-> [c \in 1..fs[2] |-> array[1][c] * frame[r][c]]]
        ELSE ValueError

\* np.sum(np.sum(frame))
np_sum_sum(m) == SumSeq([r \in 1..Len(m) |-> SumSeq(m[r])])

\* The body of the loop for the cutoff c.
sweep_product(c) ==
    frame_mul(CostMatrix, crosstab(test_data_labels, np_where_gt(churn_predictions, c)))

InitSweep ==
    /\ \E n \in 1..MaxTestRows :
          /\ test_data_labels \in [1..n -> {0, 1}]
          /\ churn_predictions \in [1..n -> PredictionValues]
    /\ sweep_i = 1
    /\ costs = <<>>
    /\ sweepPc = "loop"

\* One pass of the loop: the cost of cutoffs[sweep_i] is appended.
SweepAppend ==
    /\ sweepPc = "loop"
    /\ sweep_product(cutoffs(sweep_i)) # ValueError
    /\ costs' = Append(costs, np_sum_sum(sweep_product(cutoffs(sweep_i))))
    /\ sweep_i' = sweep_i + 1
    /\ sweepPc' = IF sweep_i = NumCutoffs THEN "done" ELSE "loop"
    /\ UNCHANGED <<test_data_labels, churn_predictions, pipeVars, dataVars, procVars>>

\* One pass of the loop raises: the cell ends with the costs appended so far.
SweepRaise ==
    /\ sweepPc = "loop"
    /\ sweep_product(cutoffs(sweep_i)) = ValueError
    /\ sweepPc' = "raised"
    /\ UNCHANGED <<test_data_labels, churn_predictions, sweep_i, costs,
                   pipeVars, dataVars, procVars>>

NextSweep ==
    \/ SweepAppend
    \/ SweepRaise

InitChurn ==
    /\ InitLambdaStep
    /\ DataIdle
    /\ InitSweep
    /\ ProcessingIdle

SpecChurn == InitChurn /\ [][NextSweep]_vars

(***************************************************************************)
(* The processing-jobs notebook.  A string is the sequence of its          *)
(* characters; the cells run top to bottom, a cell that raises leaving its *)
(* later statements undone.                                                *)
(***************************************************************************)
\* "s3://" and the session's default bucket
S3Scheme == <<"s", "3", ":", "/", "/">>
default_bucket == <<"b", "u", "c", "k", "e", "t">>

\* input_data
input_data == S3Scheme \o <<"d", "a", "t", "a", "/", "c", "e", "n", "s", "u", "s", "-", "i", "n", "c", "o", "m", "e", ".", "c", "s", "v">>

\* Base of the names the SDK gives the processor's and the estimator's jobs.
JobNameBase == <<"s", "a", "g", "e", "m", "a", "k", "e", "r", "-", "s", "c", "i", "k", "i", "t", "-", "l", "e", "a", "r", "n", "-">>

Slash == <<"/">>

ModelTarGz == <<"o", "u", "t", "p", "u", "t", "/", "m", "o", "d", "e", "l", ".", "t", "a", "r", ".", "g", "z">>

OutputNameChars(name) ==
    CASE name = "train_data" -> <<"t", "r", "a", "i", "n", "_", "d", "a", "t", "a">>
      [] name = "test_data" -> <<"t", "e", "s", "t", "_", "d", "a", "t", "a">>
      [] name = "evaluation" -> <<"e", "v", "a", "l", "u", "a", "t", "i", "o", "n">>

\* The job name made at time t.
JobName(t) == JobNameBase \o <<ToString(t)>>

\* s.rstrip("/")
RECURSIVE rstrip_slash(_)
rstrip_slash(s) ==
    IF s # <<>> /\ s[Len(s)] = "/" THEN rstrip_slash(SubSeq(s, 1, Len(s) - 1)) ELSE s

\* Where the SDK sends an output that names no destination:
\* s3://<default bucket>/<job name>/output/<output name>
DefaultOutputUri(job_name, output_name) ==
    S3Scheme \o default_bucket \o Slash \o job_name \o Slash
        \o <<"o", "u", "t", "p", "u", "t">> \o Slash \o OutputNameChars(output_name)

ProcessingOutput(job_name, output_name) ==
    [OutputName |-> output_name, S3Uri |-> DefaultOutputUri(job_name, output_name)]

\* The estimator's output path when none is given: s3://<default bucket>/
DefaultOutputPath == S3Scheme \o default_bucket \o Slash

\* Where the platform puts the model of a training job:
\* <S3OutputPath>/<job name>/output/model.tar.gz
S3ModelArtifacts(out_path, job_name) ==
    rstrip_slash(out_path) \o Slash \o job_name \o Slash \o ModelTarGz

\* "{}{}/{}".format(S3OutputPath, TrainingJobName, "output/model.tar.gz")
format_model_data(out_path, job_name) ==
    out_path \o job_name \o Slash \o ModelTarGz

\* Returning without waiting (wait=False).
JobEndedOrNot(status) == TRUE

\* run() and fit() wait for the job (wait=True): they return when the job
\* has ended.
JobEnded(status) == status \in {"Completed", "Failed", "Stopped"}

LastJob(jobs) == pjJobs[jobs[Len(jobs)]]

\* The S3Uri of the output of that name in a job description.
OutputUri(description, name) ==
    LET found == {i \in 1..Len(description.Outputs) :
                     description.Outputs[i].OutputName = name}
    IN  IF found = {} THEN <<>>
        ELSE description.Outputs[CHOOSE i \in found : TRUE].S3Uri

NewJob(kind, code, t, inputs, outputs, out_path) ==
    [kind |-> kind, code |-> code, name |-> JobName(t), status |-> "InProgress",
     inputs |-> inputs, Outputs |-> outputs, S3OutputPath |-> out_path,
     ModelArtifacts |-> <<>>]

procRest == <<pipeVars, dataVars, churnVars>>

InitProcessing ==
    /\ pjPc = "preprocessing"
    /\ pjRaised = {}
    /\ pjClock = 0
    /\ pjJobs = <<>>
    /\ processor_jobs = <<>>
    /\ estimator_jobs = <<>>
    /\ preprocessed_training_data = <<>>
    /\ preprocessed_test_data = <<>>
    /\ model_data_s3_uri = <<>>

\* sklearn_processor.run(code="preprocessing.py", ...): the job is created.
PreprocessingRun ==
    /\ pjPc = "preprocessing"
    /\ \E d \in 1..MaxTick :
          LET t == pjClock + d
              job == NewJob("processing", "preprocessing.py", t, <<input_data>>,
                            <<ProcessingOutput(JobName(t), "train_data"),
                              ProcessingOutput(JobName(t), "test_data")>>, <<>>)
          IN  /\ pjJobs' = Append(pjJobs, job)
              /\ processor_jobs' = Append(processor_jobs, Len(pjJobs) + 1)
              /\ pjClock' = t
    /\ pjPc' = "preprocessing_wait"
    /\ UNCHANGED <<pjRaised, estimator_jobs, preprocessed_training_data,
                   preprocessed_test_data, model_data_s3_uri, procRest>>

\* run() returns, or raises for a job that failed; then the description of
\* the processor's last job gives the two output locations.
PreprocessingReturn ==
    /\ pjPc = "preprocessing_wait"
    /\ JobEnded(LastJob(processor_jobs).status)
    /\ IF LastJob(processor_jobs).status \in {"Failed", "Stopped"}
       THEN /\ pjRaised' = pjRaised \cup {"preprocessing"}
            /\ UNCHANGED <<preprocessed_training_data, preprocessed_test_data>>
       ELSE LET preprocessing_job_description == LastJob(processor_jobs)
            IN  /\ preprocessed_training_data' =
                       OutputUri(preprocessing_job_description, "train_data")
                /\ preprocessed_test_data' =
                       OutputUri(preprocessing_job_description, "test_data")
                /\ UNCHANGED pjRaised
    /\ pjPc' = "fit"
    /\ UNCHANGED <<pjClock, pjJobs, processor_jobs, estimator_jobs,
                   model_data_s3_uri, procRest>>

\* sklearn.fit({"train": preprocessed_training_data}): NameError when the
\* name was never assigned, otherwise the training job is created.
FitRun ==
    /\ pjPc = "fit"
    /\ IF preprocessed_training_data = <<>>
       THEN /\ pjRaised' = pjRaised \cup {"fit"}
            /\ pjPc' = "evaluation"
            /\ UNCHANGED <<pjClock, pjJobs, estimator_jobs>>
       ELSE /\ \E d \in 1..MaxTick :
                  LET t == pjClock + d
                      job == NewJob("training", "train.py", t,
                                    <<preprocessed_training_data>>, <<>>,
                                    DefaultOutputPath)
                  IN  /\ pjJobs' = Append(pjJobs, job)
                      /\ estimator_jobs' = Append(estimator_jobs, Len(pjJobs) + 1)
                      /\ pjClock' = t
            /\ pjPc' = "fit_wait"
            /\ UNCHANGED pjRaised
    /\ UNCHANGED <<processor_jobs, preprocessed_training_data,
                   preprocessed_test_data, model_data_s3_uri, procRest>>

\* fit() returns or raises; then model_data_s3_uri is put together from the
\* description of the estimator's last job.
FitReturn ==
    /\ pjPc = "fit_wait"
    /\ JobEnded(LastJob(estimator_jobs).status)
    /\ IF LastJob(estimator_jobs).status \in {"Failed", "Stopped"}
       THEN /\ pjRaised' = pjRaised \cup {"fit"}
            /\ UNCHANGED model_data_s3_uri
       ELSE LET training_job_description == LastJob(estimator_jobs)
            IN  /\ model_data_s3_uri' =
                       format_model_data(training_job_description.S3OutputPath,
                                         training_job_description.name)
                /\ UNCHANGED pjRaised
    /\ pjPc' = "evaluation"
    /\ UNCHANGED <<pjClock, pjJobs, processor_jobs, estimator_jobs,
                   preprocessed_training_data, preprocessed_test_data, procRest>>

\* sklearn_processor.run(code="evaluation.py", ...)
EvaluationRun ==
    /\ pjPc = "evaluation"
    /\ IF model_data_s3_uri = <<>> \/ preprocessed_test_data = <<>>
       THEN /\ pjRaised' = pjRaised \cup {"evaluation"}
            /\ pjPc' = "done"
            /\ UNCHANGED <<pjClock, pjJobs, processor_jobs>>
       ELSE /\ \E d \in 1..MaxTick :
                  LET t == pjClock + d
                      job == NewJob("processing", "evaluation.py", t,
                                    <<model_data_s3_uri, preprocessed_test_data>>,
                                    <<ProcessingOutput(JobName(t), "evaluation")>>,
                                    <<>>)
                  IN  /\ pjJobs' = Append(pjJobs, job)
                      /\ processor_jobs' = Append(processor_jobs, Len(pjJobs) + 1)
                      /\ pjClock' = t
            /\ pjPc' = "evaluation_wait"
            /\ UNCHANGED pjRaised
    /\ UNCHANGED <<estimator_jobs, preprocessed_training_data,
                   preprocessed_test_data, model_data_s3_uri, procRest>>

EvaluationReturn ==
    /\ pjPc = "evaluation_wait"
    /\ JobEnded(LastJob(processor_jobs).status)
    /\ pjRaised' = IF LastJob(processor_jobs).status \in {"Failed", "Stopped"}
                   THEN pjRaised \cup {"evaluation"} ELSE pjRaised
    /\ pjPc' = "done"
    /\ UNCHANGED <<pjClock, pjJobs, processor_jobs, estimator_jobs,
                   preprocessed_training_data, preprocessed_test_data,
                   model_data_s3_uri, procRest>>

\* The platform ends a job; a training job that completes has its model at
\* S3ModelArtifacts.
JobCompletes ==
    /\ \E j \in 1..Len(pjJobs) :
          /\ pjJobs[j].status = "InProgress"
          /\ pjJobs' = [pjJobs EXCEPT
                 ![j].status = "Completed",
                 ![j].ModelArtifacts =
                     IF pjJobs[j].kind = "training"
                     THEN S3ModelArtifacts(pjJobs[j].S3OutputPath, pjJobs[j].name)
                     ELSE <<>>]
    /\ UNCHANGED <<pjPc, pjRaised, pjClock, processor_jobs, estimator_jobs,
                   preprocessed_training_data, preprocessed_test_data,
                   model_data_s3_uri, procRest>>

JobFails ==
    /\ \E j \in 1..Len(pjJobs) :
          /\ pjJobs[j].status = "InProgress"
          /\ pjJobs' = [pjJobs EXCEPT ![j].status = "Failed"]
    /\ UNCHANGED <<pjPc, pjRaised, pjClock, processor_jobs, estimator_jobs,
                   preprocessed_training_data, preprocessed_test_data,
                   model_data_s3_uri, procRest>>

\* A job is stopped from outside the notebook.
JobStopping ==
    /\ \E j \in 1..Len(pjJobs) :
          /\ pjJobs[j].status = "InProgress"
          /\ pjJobs' = [pjJobs EXCEPT ![j].status = "Stopping"]
    /\ UNCHANGED <<pjPc, pjRaised, pjClock, processor_jobs, estimator_jobs,
                   preprocessed_training_data, preprocessed_test_data,
                   model_data_s3_uri, procRest>>

JobStopped ==
    /\ \E j \in 1..Len(pjJobs) :
          /\ pjJobs[j].status = "Stopping"
          /\ pjJobs' = [pjJobs EXCEPT ![j].status = "Stopped"]
    /\ UNCHANGED <<pjPc, pjRaised, pjClock, processor_jobs, estimator_jobs,
                   preprocessed_training_data, preprocessed_test_data,
                   model_data_s3_uri, procRest>>

NextProcessing ==
    \/ PreprocessingRun
    \/ PreprocessingReturn
    \/ FitRun
    \/ FitReturn
    \/ EvaluationRun
    \/ EvaluationReturn
    \/ JobCompletes
    \/ JobFails
    \/ JobStopping
    \/ JobStopped

InitProcessingNotebook ==
    /\ InitLambdaStep
    /\ DataIdle
    /\ ChurnIdle
    /\ InitProcessing

SpecProcessing == InitProcessingNotebook /\ [][NextProcessing]_vars

(***************************************************************************)
(* Properties.                                                             *)
(***************************************************************************)
\* The indices of the calls of op that caller has issued.
Calls(caller, op) ==
    {i \in DOMAIN apiLog : apiLog[i].caller = caller /\ apiLog[i].op = op}

OkCalls(caller, op) == {i \in Calls(caller, op) : apiLog[i].ok}

Evaluated == stepStatus["EvaluateAbaloneModel"] = "Succeeded"

\* C1: CreateModel and LambdaStep run only when the evaluated MSE is at most
\* 6.0; when it is greater than 6.0 neither of them ever starts and the
\* execution creates no model, no endpoint configuration and no endpoint.
C1_DeployOnlyIfMseAtMostSix ==
    /\ \A s \in {"CreateModel", "LambdaStep"} :
          stepStatus[s] # "NotStarted" => Evaluated /\ mse.num <= 6 * mse.den
    /\ Evaluated /\ mse.num > 6 * mse.den =>
          /\ stepStatus["CreateModel"] = "NotStarted"
          /\ stepStatus["LambdaStep"] = "NotStarted"
          /\ lambdaPc = "idle"
          /\ models = {} /\ endpointConfigs = {} /\ endpoints = {}
          /\ Calls("pipeline", "create_model") = {}
          /\ Calls("lambda", "create_endpoint_config") = {}
          /\ Calls("lambda", "create_endpoint") = {}

\* An execution that evaluated an MSE above 6.0 has succeeded.
C1_Witness ==
    /\ execStatus = "Succeeded"
    /\ condOutcome = "False"
    /\ mse.num > 6 * mse.den

\* C2: TrainAbaloneModel never starts before PreprocessAbaloneData has
\* completed, EvaluateAbaloneModel never starts before TrainAbaloneModel and
\* PreprocessAbaloneData have completed, and CheckMSEAbaloneEvaluation is
\* never evaluated before EvaluateAbaloneModel has completed.
C2_DataDependenciesRespected ==
    /\ stepStatus["TrainAbaloneModel"] # "NotStarted" =>
          stepStatus["PreprocessAbaloneData"] = "Succeeded"
    /\ stepStatus["EvaluateAbaloneModel"] # "NotStarted" =>
          /\ stepStatus["TrainAbaloneModel"] = "Succeeded"
          /\ stepStatus["PreprocessAbaloneData"] = "Succeeded"
    /\ stepStatus["CheckMSEAbaloneEvaluation"] # "NotStarted" \/ condOutcome # "None" =>
          stepStatus["EvaluateAbaloneModel"] = "Succeeded"

\* The condition step has been evaluated.
C2_Witness ==
    /\ stepStatus["CheckMSEAbaloneEvaluation"] = "Succeeded"
    /\ condOutcome # "None"

\* C3: the LambdaStep starts only after CreateModel has completed, and the
\* model_name it passes to the function is the name of the model CreateModel
\* created in this execution, not "demo-lambda-model" + current_time.
C3_LambdaGetsCreatedModelName ==
    stepStatus["LambdaStep"] # "NotStarted" \/ lambdaPc # "idle" =>
        /\ stepStatus["CreateModel"] = "Succeeded"
        /\ \E i \in Calls("pipeline", "create_model") : apiLog[i].name = event.model_name
        /\ event.model_name = createdModel
        /\ event.model_name # <<"demo-lambda-model", current_time>>

\* The function has been invoked and has created the endpoint configuration.
C3_Witness ==
    /\ stepStatus["LambdaStep"] = "Executing"
    /\ lambdaPc = "create_endpoint"

\* C4: lambda_handler first creates the endpoint configuration
\* event['endpoint_config_name'], whose single production variant is
\* event['model_name'], and only after that call has returned creates the
\* endpoint event['endpoint_name'] with that configuration; create_endpoint
\* is never issued before create_endpoint_config has succeeded.
C4_ConfigBeforeEndpoint ==
    /\ \A j \in Calls("lambda", "create_endpoint") :
          /\ apiLog[j].name = event.endpoint_name
          /\ \E i \in OkCalls("lambda", "create_endpoint_config") :
                i < j /\ apiLog[i].name = event.endpoint_config_name
    /\ \A i \in Calls("lambda", "create_endpoint_config") :
          apiLog[i].name = event.endpoint_config_name
    /\ lambdaPc \notin {"idle", "create_endpoint_config"} =>
          Calls("lambda", "create_endpoint_config") # {}
    /\ \A c \in endpointConfigs :
          /\ c.name = event.endpoint_config_name
          /\ Len(c.ProductionVariants) = 1
          /\ c.ProductionVariants[1].ModelName = event.model_name
    /\ \A e \in endpoints :
          e.name = event.endpoint_name /\ e.config = event.endpoint_config_name

\* The handler has returned after creating both.
C4_Witness ==
    /\ lambdaPc = "returned"
    /\ endpointConfigs # {}
    /\ endpoints # {}

\* The clean-up cell has run all its statements and none has raised.
CleanupCompleted == nbPc = "done" /\ "cleanup" \notin raised

\* Exactly one delete call of op was issued, it named name, and it succeeded.
DeletedOnce(op, name) ==
    /\ Cardinality(Calls("cleanup", op)) = 1
    /\ \A i \in Calls("cleanup", op) : apiLog[i].name = name /\ apiLog[i].ok

\* C5: after the clean-up cell has run to completion the model, the endpoint
\* configuration, the endpoint, the Lambda function and the pipeline have
\* been deleted, each by exactly one delete call.
C5_CleanupDeletesAllFive ==
    CleanupCompleted =>
        /\ models = {} /\ endpointConfigs = {} /\ endpoints = {}
        /\ functions = {} /\ pipelines = {}
        /\ DeletedOnce("delete_model", createdModel)
        /\ DeletedOnce("delete_endpoint_config", endpoint_config_name)
        /\ DeletedOnce("delete_endpoint", endpoint_name)
        /\ DeletedOnce("delete_function", function_name)
        /\ DeletedOnce("delete_pipeline", pipeline_name)

\* The clean-up cell has completed after a deployment.
C5_Witness ==
    /\ CleanupCompleted
    /\ stepStatus["LambdaStep"] = "Succeeded"

\* C6: the clean-up cell reads the model name from the endpoint
\* configuration before it deletes that configuration, and the model it
\* deletes is the one named in the first production variant of the
\* configuration the Lambda created: the model CreateModel created.
C6_DeletedModelIsTheDeployedOne ==
    /\ \A j \in Calls("cleanup", "delete_endpoint_config") :
          \E i \in OkCalls("cleanup", "describe_endpoint_config") :
             i < j /\ apiLog[i].name = apiLog[j].name
    /\ \A j \in Calls("cleanup", "delete_model") :
          /\ \E i \in OkCalls("cleanup", "describe_endpoint_config") : i < j
          /\ \A k \in Calls("cleanup", "delete_endpoint_config") : j < k
          /\ apiLog[j].name = ProductionVariants(event)[1].ModelName
          /\ apiLog[j].name = createdModel
          /\ \E i \in Calls("pipeline", "create_model") : apiLog[i].name = apiLog[j].name

\* The clean-up cell has deleted the model and the endpoint configuration.
C6_Witness ==
    /\ OkCalls("cleanup", "delete_model") # {}
    /\ OkCalls("cleanup", "delete_endpoint_config") # {}

\* C7: any two executions started from the notebook were started under the
\* same pipeline name, also when the cells that compute current_time and
\* pipeline_name were run again at a later time in between.
C7_SamePipelineNameAcrossExecutions ==
    \A i, j \in DOMAIN started : started[i] = started[j]

\* C8: lambda_handler neither retries nor rolls back.  If
\* create_endpoint_config raises, create_endpoint is never called and no
\* dictionary is returned; if create_endpoint raises after
\* create_endpoint_config succeeded, the endpoint configuration is left in
\* place, neither call is issued again and no statusCode 200 dictionary is
\* returned.
C8_NoRetryNoRollback ==
    /\ Cardinality(Calls("lambda", "create_endpoint_config")) <= 1
    /\ Cardinality(Calls("lambda", "create_endpoint")) <= 1
    /\ \A i \in DOMAIN apiLog :
          apiLog[i].caller = "lambda" =>
             apiLog[i].op \in {"create_endpoint_config", "create_endpoint"}
    /\ lambdaPc = "raised" => response = <<>>
    /\ (\E i \in Calls("lambda", "create_endpoint_config") : ~apiLog[i].ok) =>
          /\ Calls("lambda", "create_endpoint") = {}
          /\ lambdaPc = "raised"
          /\ response = <<>>
    /\ (\E i \in Calls("lambda", "create_endpoint") : ~apiLog[i].ok) =>
          /\ lambdaPc = "raised"
          /\ response = <<>>
          /\ OkCalls("lambda", "create_endpoint_config") # {}
          /\ \/ \E c \in endpointConfigs : c.name = event.endpoint_config_name
             \/ OkCalls("cleanup", "delete_endpoint_config") # {}

\* create_endpoint has raised and the endpoint configuration is still there.
C8_Witness ==
    /\ lambdaPc = "raised"
    /\ \E i \in Calls("lambda", "create_endpoint") : ~apiLog[i].ok
    /\ \E c \in endpointConfigs : c.name = event.endpoint_config_name
    /\ endpoints = {}

\* C9: the keys of the dictionary lambda_handler returns are exactly the
\* output names declared as LambdaOutput of the LambdaStep: statusCode, body
\* and other_key.
C9_ReturnedKeysAreDeclaredOutputs ==
    /\ LambdaOutputs = {"statusCode", "body", "other_key"}
    /\ lambdaPc = "returned" => Len(response) = 1
    /\ \A i \in DOMAIN response : DOMAIN response[i] = LambdaOutputs

\* The handler has returned its dictionary.
C9_Witness ==
    /\ lambdaPc = "returned"
    /\ Len(response) = 1

\* C10: whenever evaluate.py has completed, evaluation.json holds the keys
\* regression_metrics.mse.value and regression_metrics.mse.standard_deviation,
\* and the JSON path the condition step reads resolves to the MSE that
\* evaluate.py computed.
C10_ReportResolvesToComputedMse ==
    Evaluated =>
        /\ JsonGet(evaluationJson, <<"regression_metrics", "mse", "value">>).found
        /\ JsonGet(evaluationJson, <<"regression_metrics", "mse", "standard_deviation">>).found
        /\ JsonGet(evaluationJson, json_path) = [found |-> TRUE, num |-> mse]
        /\ stepStatus["CheckMSEAbaloneEvaluation"] # "Failed"

\* evaluate.py has written a report with a positive MSE and the condition
\* step has read it.
C10_Witness ==
    /\ Evaluated
    /\ mse.num > 0
    /\ mse.den > 1
    /\ stepStatus["CheckMSEAbaloneEvaluation"] = "Succeeded"

\* C11: for every row count n, the three files partition the shuffled rows,
\* with floor(0.7*n) rows in train.csv, floor(0.85*n) - floor(0.7*n) rows in
\* validation.csv and n - floor(0.85*n) rows in test.csv.
C11_SplitPartitionsWithFloorSizes ==
    ppPc \in {"evaluate", "done"} =>
        /\ train \o validation \o test = X
        /\ Len(train) = (7 * Len(X)) \div 10
        /\ Len(validation) = (85 * Len(X)) \div 100 - (7 * Len(X)) \div 10
        /\ Len(test) = Len(X) - (85 * Len(X)) \div 100

FileRows == {train[i] : i \in 1..Len(train)}
                \cup {validation[i] : i \in 1..Len(validation)}
                \cup {test[i] : i \in 1..Len(test)}

\* C12: every row of the three files carries the label (rings) in column 0
\* followed only by feature columns, and evaluate.py takes column 0 of
\* test.csv as the label and gives the model only the remaining columns, so
\* the features of a row never hold the label of that row.
C12_LabelFirstAndNeverAFeature ==
    /\ \A row \in FileRows :
          /\ row[1].from = "rings"
          /\ \A j \in 2..Len(row) : row[j].from # "rings"
    /\ ppPc = "done" =>
          /\ Len(ev_y_test) = Len(test)
          /\ Len(ev_X_test) = Len(test)
          /\ \A i \in 1..Len(test) :
                /\ \A j \in 1..Len(ev_X_test[i]) : ev_X_test[i][j].from # "rings"
                /\ ev_X_test[i][1].from = "length"
                /\ ev_y_test[i] = Cell("rings", df[ev_X_test[i][1].v].rings)

C12_Witness ==
    /\ ppPc = "done"
    /\ Len(ev_X_test) >= 2
    /\ \E i, j \in 1..Len(ev_y_test) : ev_y_test[i].v # ev_y_test[j].v

\* The rows of each outcome at cutoffs[j], a row being predicted positive
\* exactly when its score is strictly above the cutoff.
TestRows == 1..Len(test_data_labels)
FN(j) == Cardinality({i \in TestRows : test_data_labels[i] = 1 /\ ~(churn_predictions[i] > cutoffs(j))})
TN(j) == Cardinality({i \in TestRows : test_data_labels[i] = 0 /\ ~(churn_predictions[i] > cutoffs(j))})
FP(j) == Cardinality({i \in TestRows : test_data_labels[i] = 0 /\ churn_predictions[i] > cutoffs(j)})
TP(j) == Cardinality({i \in TestRows : test_data_labels[i] = 1 /\ churn_predictions[i] > cutoffs(j)})

\* The cost function of the notebook at cutoffs[j].
CostFunction(j) == 500 * FN(j) + 0 * TN(j) + 100 * FP(j) + 100 * TP(j)

\* The costs the sweep did append are those of the cost function.
AppendedCostsAreCostFunction ==
    \A j \in 1..Len(costs) : costs[j] = CostFunction(j)

\* C13: for every tested cutoff C the sweep computes the cost
\* 500*FN(C) + 0*TN(C) + 100*FP(C) + 100*TP(C), also at cutoffs where all
\* test rows are predicted positive or all negative.
C13_SweepComputesCostAtEveryCutoff ==
    /\ sweepPc # "raised"
    /\ AppendedCostsAreCostFunction
    /\ sweepPc = "done" => Len(costs) = NumCutoffs

JobsOf(code) == {j \in 1..Len(pjJobs) : pjJobs[j].code = code}

CompletedBefore(code, j) ==
    {p \in JobsOf(code) : p < j /\ pjJobs[p].status = "Completed"}

AwaitedSucceeded == nbPc = "waiter" /\ execStatus = "Succeeded"

WaiterReturned == nbPc # "waiter" /\ "waiter" \notin raised

=============================================================================
